---------------------------- MODULE Spec2Model ----------------------------
(***************************************************************************)
(* Model of the ingredient enrichment pipeline                             *)
(* (enrichIngredientsWithDetails, retrieveSafetyContext,                   *)
(* fetchIngredientFromLLMWithRAG, processBatch) of the backend service.    *)
(*                                                                         *)
(* One enrich call is a process whose position is pc.  The external        *)
(* collaborators (the IngredientAI collection, the similarity search and   *)
(* the generation service) are black boxes: each of their answers is a     *)
(* nondeterministic choice made when the awaited call settles.             *)
(* Similarities are kept in thousandths (0.85 is 850).                     *)
(***************************************************************************)
EXTENDS Integers, Sequences, FiniteSets, TLC

(***************************************************************************)
(* Bounds of the model                                                     *)
(***************************************************************************)
\* longest input list of which every list over Names is tried
MaxLen == 2
\* number of input names a long (multi-batch) input has beyond one full batch
MaxExtra == 1
\* enrich calls made one after the other on the same cache backing (the calls
\* after the first enrich a single name)
MaxCalls == 2
\* malformed positions in the generation responses of one call
MaxAnomalies == 1

(***************************************************************************)
(* Program constants                                                       *)
(***************************************************************************)
BATCH_SIZE == 5
\* the alert threshold 0.85 of retrieveSafetyContext and processBatch
ALERT_THRESHOLD == 850
\* minSimilarity 0.8 and topK 1 handed to searchSafetyData
MIN_SIMILARITY == 800
TOP_K == 1

(***************************************************************************)
(* Values                                                                  *)
(***************************************************************************)
\* JavaScript's undefined (a missing property, a missing array slot)
NoVal == "<undefined>"
\* ingredient names a caller passes
Names == {"A", "B"}
\* a name only the generation service comes up with
ForeignName == "Z"
\* every key the IngredientAI collection can hold
Keys == Names \cup {ForeignName, NoVal}

\* a || b on strings (the model has no empty string among the service's values)
OrElse(a, b) == IF a # NoVal THEN a ELSE b

Range(s) == {s[i] : i \in DOMAIN s}

RECURSIVE SeqsUpTo(_, _)
SeqsUpTo(S, n) ==
  IF n = 0 THEN {<<>>}
  ELSE LET shorter == SeqsUpTo(S, n - 1)
       IN  shorter \cup {Append(s, x) : s \in {t \in shorter : Len(t) = n - 1}, x \in S}

Min(a, b) == IF a < b THEN a ELSE b

(***************************************************************************)
(* Records of the IngredientAI collection and of the result                *)
(***************************************************************************)
Absent == [name |-> "<absent>", description |-> "", benefits |-> <<>>,
           good_for |-> <<>>, risk_level |-> "", reason |-> ""]

\* a record an earlier, successful enrichment left in the collection
CachedDoc(n) == [name |-> n, description |-> "cached description",
                 benefits |-> <<"b1", "b2", "b3">>, good_for |-> <<"dry">>,
                 risk_level |-> "no-risk", reason |-> "cached reason"]

\* the fallback of the orchestrator's catch block
FetchFailedDoc(ingredientName) ==
  [name |-> ingredientName, description |-> "Information not available",
   benefits |-> <<>>, good_for |-> <<>>, risk_level |-> "Unknown",
   reason |-> "LLM fetch failed"]

\* the fields the result keeps of a record
FrontEndFields(doc) ==
  [name |-> doc.name, description |-> doc.description, benefits |-> doc.benefits,
   good_for |-> doc.good_for, risk_level |-> doc.risk_level, reason |-> doc.reason]

(***************************************************************************)
(* Objects of a parsed generation response.  A property is NoVal when the  *)
(* object lacks it; benefits carries whether it is an array, good_for      *)
(* whether it is present.                                                  *)
(***************************************************************************)
GoodObj(n) ==
  [name |-> n, inci_name |-> NoVal, description |-> "generated description",
   summary |-> NoVal, benefits |-> [arr |-> TRUE, val |-> <<"g1", "g2", "g3">>],
   good_for |-> [def |-> TRUE, val |-> <<"oily">>],
   risk_level |-> "low-risk", reason |-> "generated reason"]

\* a truthy value without any of the properties (a nested array, a number, a string)
EmptyObj ==
  [name |-> NoVal, inci_name |-> NoVal, description |-> NoVal, summary |-> NoVal,
   benefits |-> [arr |-> FALSE, val |-> <<>>], good_for |-> [def |-> FALSE, val |-> <<>>],
   risk_level |-> NoVal, reason |-> NoVal]

FallbackObj(n, why) ==
  [name |-> n, inci_name |-> NoVal, description |-> "Information not available",
   summary |-> NoVal, benefits |-> [arr |-> TRUE, val |-> <<>>],
   good_for |-> [def |-> TRUE, val |-> <<>>],
   risk_level |-> "Unknown", reason |-> why]

\* elements of a JSON array: an object (or any other truthy value), or null
ObjEl(o) == [kind |-> "obj", obj |-> o]
NullEl == [kind |-> "null", obj |-> EmptyObj]

\* JavaScript truthiness of an element: null is falsy, objects are not
Truthy(el) == el.kind # "null"

(***************************************************************************)
(* Similarity search answers and the Context Builder                       *)
(***************************************************************************)
\* similarities the search service may report (all at or above MIN_SIMILARITY)
Sims == {820, 850, 900}

\* safety-database rows: a full one, and one whose columns are empty
BannedRow == [ingredient_name |-> "Phenylbutazone", details |-> "prohibited",
              risk |-> "High (Banned)"]
BlankRow == [ingredient_name |-> NoVal, details |-> NoVal, risk |-> NoVal]

Matches == {[data |-> BannedRow, similarity |-> s] : s \in Sims}

Descending(hits) ==
  \A i \in 1..Len(hits) - 1 : hits[i].similarity >= hits[i + 1].similarity

\* what searchSafetyData(query, TOP_K, MIN_SIMILARITY) may resolve to
SearchAnswers == {hits \in SeqsUpTo(Matches, TOP_K) : Descending(hits)}

ZeroContext == [has_safety_concerns |-> FALSE, matched_substances |-> <<>>,
                highest_similarity |-> 0]

\* variant: the threshold taken inclusively
HighConfidenceInclusive(result) == result.similarity >= ALERT_THRESHOLD

HighConfidence(result) == result.similarity > ALERT_THRESHOLD

Substance(result) ==
  [name |-> OrElse(result.data.ingredient_name, "Unknown substance"),
   details |-> OrElse(result.data.details, "No details available"),
   risk |-> OrElse(result.data.risk, "Unknown"),
   similarity |-> result.similarity]

\* variant: every match is recorded, not only the ones above the threshold
SafetyContextOfAllMatches(safetyResults) ==
  IF Len(SelectSeq(safetyResults, HighConfidence)) > 0
  THEN [has_safety_concerns |-> TRUE,
        matched_substances |->
          [i \in 1..Len(safetyResults) |-> Substance(safetyResults[i])],
        highest_similarity |-> safetyResults[1].similarity]
  ELSE ZeroContext

\* the body of allResults.forEach for one ingredient
SafetyContextOf(safetyResults) ==
  LET highConfidenceMatches == SelectSeq(safetyResults, HighConfidence)
  IN  IF Len(highConfidenceMatches) > 0
      THEN [has_safety_concerns |-> TRUE,
            matched_substances |->
              [i \in 1..Len(highConfidenceMatches) |-> Substance(highConfidenceMatches[i])],
            highest_similarity |-> highConfidenceMatches[1].similarity]
      ELSE ZeroContext

\* contextMap after the forEach over allResults: a later position of the same
\* name overwrites an earlier one
RECURSIVE ContextMapOf(_, _)
ContextMapOf(ingredientNames, allResults) ==
  IF ingredientNames = <<>> THEN [k \in {} |-> ZeroContext]
  ELSE LET n == Len(ingredientNames)
           before == ContextMapOf(SubSeq(ingredientNames, 1, n - 1),
                                  SubSeq(allResults, 1, n - 1))
           key == ingredientNames[n]
           ctx == SafetyContextOf(allResults[n])
       IN  [k \in DOMAIN before \cup {key} |-> IF k = key THEN ctx ELSE before[k]]

(***************************************************************************)
(* The generation request of one batch                                     *)
(***************************************************************************)
\* (similarity * 100).toFixed(0)
PercentOf(similarity) == (similarity + 5) \div 10

\* variant: the threshold written on the percent scale (85) while similarities
\* are fractions, so that no context ever passes it
AlertAppliesWrongScale(ragContext, ingredientName) ==
  /\ ingredientName \in DOMAIN ragContext
  /\ ragContext[ingredientName].has_safety_concerns
  /\ ragContext[ingredientName].highest_similarity > 85 * 1000

AlertApplies(ragContext, ingredientName) ==
  /\ ingredientName \in DOMAIN ragContext
  /\ ragContext[ingredientName].has_safety_concerns
  /\ ragContext[ingredientName].highest_similarity > ALERT_THRESHOLD

AlertLine(ragContext, ingredientName) ==
  LET topMatch == ragContext[ingredientName].matched_substances[1]
      riskInfo == IF topMatch.risk # NoVal /\ topMatch.risk # "Unknown"
                  THEN topMatch.risk ELSE "safety concern"
  IN  [ingredient |-> ingredientName, substance |-> topMatch.name,
       percent |-> PercentOf(topMatch.similarity), risk |-> riskInfo]

\* contextSection: one line per batch position that qualifies, in batch order
RECURSIVE ContextSection(_, _)
ContextSection(batch, ragContext) ==
  IF batch = <<>> THEN <<>>
  ELSE (IF AlertApplies(ragContext, Head(batch))
        THEN <<AlertLine(ragContext, Head(batch))>> ELSE <<>>)
       \o ContextSection(Tail(batch), ragContext)

\* the prompt and the request options that depend on the batch
RequestOf(batch, ragContext) ==
  LET contextSection == ContextSection(batch, ragContext)
  IN  [ingredients |-> batch,
       alertsHeader |-> contextSection # <<>>,
       alerts |-> contextSection,
       maxTokens |-> Min(200 * Len(batch), 2500)]

\* variant: slices one element too long, so that consecutive batches overlap
RECURSIVE BatchesOverlapping(_)
BatchesOverlapping(ingredientNames) ==
  IF ingredientNames = <<>> THEN <<>>
  ELSE <<SubSeq(ingredientNames, 1, Min(BATCH_SIZE + 1, Len(ingredientNames)))>>
       \o BatchesOverlapping(SubSeq(ingredientNames, BATCH_SIZE + 1, Len(ingredientNames)))

\* batches of fetchIngredientFromLLMWithRAG: slices of BATCH_SIZE
RECURSIVE Batches(_)
Batches(ingredientNames) ==
  IF ingredientNames = <<>> THEN <<>>
  ELSE <<SubSeq(ingredientNames, 1, Min(BATCH_SIZE, Len(ingredientNames)))>>
       \o Batches(SubSeq(ingredientNames, BATCH_SIZE + 1, Len(ingredientNames)))

(***************************************************************************)
(* What a generation call may settle with                                  *)
(***************************************************************************)
\* names a response object may carry instead of the requested one
OtherNames(n) == (Names \cup {ForeignName}) \ {n}

\* malformed elements at the position of requested name n
AnomalousElements(n) ==
  {ObjEl([GoodObj(n) EXCEPT !.name = m]) : m \in OtherNames(n)}
  \cup {ObjEl([GoodObj(n) EXCEPT !.name = NoVal, !.risk_level = NoVal]),
        ObjEl([GoodObj(n) EXCEPT !.name = NoVal, !.inci_name = ForeignName]),
        ObjEl([GoodObj(n) EXCEPT !.risk_level = "banned"]),
        ObjEl([GoodObj(n) EXCEPT !.description = NoVal, !.summary = "generated summary",
                                 !.benefits = [arr |-> FALSE, val |-> <<>>],
                                 !.good_for = [def |-> FALSE, val |-> <<>>],
                                 !.reason = NoVal]),
        ObjEl(EmptyObj),
        NullEl}

\* arrays answering batch with at most k malformed positions
RECURSIVE ArraysFor(_, _)
ArraysFor(batch, k) ==
  IF batch = <<>> THEN {<<>>}
  ELSE {<<ObjEl(GoodObj(Head(batch)))>> \o rest : rest \in ArraysFor(Tail(batch), k)}
       \cup (IF k = 0 THEN {}
             ELSE {<<el>> \o rest : el \in AnomalousElements(Head(batch)),
                                    rest \in ArraysFor(Tail(batch), k - 1)})

WellFormed(batch) == [i \in 1..Len(batch) |-> ObjEl(GoodObj(batch[i]))]

\* arrays with one object too few or one too many
MiscountedArrays(batch, k) ==
  IF k = 0 THEN {}
  ELSE {SubSeq(WellFormed(batch), 1, Len(batch) - 1),
        Append(WellFormed(batch), ObjEl(GoodObj(ForeignName)))}

\* values of JSON.parse(content): an array (els), an object with an array
\* under `ingredients` (els), an object without `ingredients` (obj), null
ParsedArray(a) == [kind |-> "array", els |-> a, obj |-> EmptyObj]
ParsedWrapping(a) == [kind |-> "wrapped", els |-> a, obj |-> EmptyObj]
ParsedObject(o) == [kind |-> "single", els |-> <<>>, obj |-> o]
ParsedNull == [kind |-> "null", els |-> <<>>, obj |-> EmptyObj]

\* JSON.parse(content): an array, an object wrapping an array under `ingredients`,
\* an object without `ingredients`, or null; k malformed positions are left to
\* the call
ParsedValues(batch, k) ==
  {ParsedArray(a) : a \in ArraysFor(batch, k) \cup MiscountedArrays(batch, k)}
  \cup {ParsedWrapping(a) : a \in {WellFormed(batch)} \cup MiscountedArrays(batch, k)}
  \cup {ParsedObject(GoodObj(batch[1])), ParsedNull}

\* the malformed positions of a parsed array answering batch
Malformed(batch, els) ==
  IF Len(els) # Len(batch) THEN 1
  ELSE Cardinality({i \in DOMAIN els : els[i] # ObjEl(GoodObj(batch[i]))})

NoParsed == [kind |-> "none", els |-> <<>>, obj |-> EmptyObj]

\* the outcomes of axios.post, of reading the content and of JSON.parse
BatchOutcomes(batch, k) ==
  {[error |-> m, parsed |-> NoParsed] :
      m \in {"timeout of 60000ms exceeded", "Invalid LLM response format",
             "Unexpected token in JSON"}}
  \cup {[error |-> NoVal, parsed |-> v] : v \in ParsedValues(batch, k)}

(***************************************************************************)
(* processBatch after the call settled                                     *)
(***************************************************************************)
\* Array.isArray(parsed) ? parsed : (parsed.ingredients || [parsed])
ResultsOf(parsed) ==
  IF parsed.kind = "array" THEN parsed.els
  ELSE IF parsed.kind = "wrapped" THEN parsed.els
  ELSE <<ObjEl(parsed.obj)>>

\* the error the try block of processBatch ends with, NoVal when it ends normally
BatchError(outcome) ==
  IF outcome.error # NoVal THEN outcome.error
  ELSE IF outcome.parsed.kind = "null" THEN "Cannot read properties of null"
  ELSE NoVal

\* variant: the results are mapped, not the batch
FillGapsOverResults(batch, results) ==
  [i \in 1..Len(results) |->
     IF Truthy(results[i]) THEN results[i]
     ELSE ObjEl(FallbackObj(IF i <= Len(batch) THEN batch[i] ELSE NoVal,
                            "LLM response incomplete"))]

\* batch.map((name, idx) => results[idx] || fallback)
FillGaps(batch, results) ==
  [i \in 1..Len(batch) |->
     IF i <= Len(results) /\ Truthy(results[i]) THEN results[i]
     ELSE ObjEl(FallbackObj(batch[i], "LLM response incomplete"))]

\* the value processBatch resolves to
ProcessBatchResult(batch, outcome) ==
  IF BatchError(outcome) # NoVal
  THEN [i \in 1..Len(batch) |->
          ObjEl(FallbackObj(batch[i], "LLM error: " \o BatchError(outcome)))]
  ELSE FillGaps(batch, ResultsOf(outcome.parsed))

\* batchResults.flat(): the batch results joined (depth 1: an element that is
\* itself an array stays one element)
RECURSIVE Flat(_)
Flat(batchResults) ==
  IF batchResults = <<>> THEN <<>>
  ELSE Head(batchResults) \o Flat(Tail(batchResults))

(***************************************************************************)
(* The record the orchestrator builds of one generation result             *)
(***************************************************************************)
\* variant: the risk level and the reason set locally, whatever the response says
DocOfRiskOverridden(llmResult, ingredientName) ==
  [name |-> OrElse(llmResult.name, OrElse(llmResult.inci_name, ingredientName)),
   description |-> OrElse(llmResult.description, OrElse(llmResult.summary, "")),
   benefits |-> IF llmResult.benefits.arr THEN llmResult.benefits.val ELSE <<>>,
   good_for |-> IF llmResult.good_for.def THEN llmResult.good_for.val ELSE <<>>,
   risk_level |-> "high-risk",
   reason |-> "flagged by a safety alert"]

DocOf(llmResult, ingredientName) ==
  [name |-> OrElse(llmResult.name, OrElse(llmResult.inci_name, ingredientName)),
   description |-> OrElse(llmResult.description, OrElse(llmResult.summary, "")),
   benefits |-> IF llmResult.benefits.arr THEN llmResult.benefits.val ELSE <<>>,
   good_for |-> IF llmResult.good_for.def THEN llmResult.good_for.val ELSE <<>>,
   risk_level |-> OrElse(llmResult.risk_level, "Unknown"),
   reason |-> OrElse(llmResult.reason, "")]

\* IngredientAI.find({name: {$in: ingredientNames}}) folded into aiMap
AiMapOf(collection, ingredientNames) ==
  [k \in Keys |-> IF k \in Range(ingredientNames) THEN collection[k] ELSE Absent]

\* ingredientNames.filter(name => !aiMap.has(name))
StillMissing(ingredientNames, map) ==
  LET missing(name) == map[name] = Absent
  IN  SelectSeq(ingredientNames, missing)

\* ingredientNames.map(name => ...).filter(Boolean)
\* variant: a repeated name is emitted once
RECURSIVE EnrichedDistinct(_, _)
EnrichedDistinct(ingredientNames, map) ==
  IF ingredientNames = <<>> THEN <<>>
  ELSE (IF map[Head(ingredientNames)] = Absent
           \/ Head(ingredientNames) \in Range(Tail(ingredientNames))
        THEN <<>>
        ELSE <<FrontEndFields(map[Head(ingredientNames)])>>)
       \o EnrichedDistinct(Tail(ingredientNames), map)

RECURSIVE Enriched(_, _)
Enriched(ingredientNames, map) ==
  IF ingredientNames = <<>> THEN <<>>
  ELSE (IF map[Head(ingredientNames)] = Absent THEN <<>>
        ELSE <<FrontEndFields(map[Head(ingredientNames)])>>)
       \o Enriched(Tail(ingredientNames), map)

(***************************************************************************)
(* Inputs                                                                  *)
(***************************************************************************)
ShortInputs == SeqsUpTo(Names, MaxLen)

\* inputs of more than one batch: "A", "B", "A", ... so that a name recurs
\* within a batch and across batches
Alternating(n) == [i \in 1..n |-> IF i % 2 = 1 THEN "A" ELSE "B"]
LongInputs == {Alternating(BATCH_SIZE + e) : e \in 1..MaxExtra}

\* the collection before the first call: any subset of Names already enriched
InitialCollections ==
  {[k \in Keys |-> IF k \in S THEN CachedDoc(k) ELSE Absent] : S \in SUBSET Names}

(***************************************************************************)
(* State                                                                   *)
(***************************************************************************)
VARIABLES
  collection,          \* the IngredientAI collection: key -> record or Absent
  pc,                  \* where the enrich call stands
  ingredientNames,     \* the argument of the call
  aiMap,               \* aiMap of the call
  stillMissing,        \* stillMissing of the call
  searches,            \* per position of stillMissing: the search promise
  ragContext,          \* the contextMap retrieveSafetyContext returned
  batchResults,        \* per batch: the processBatch promise
  llmResults,          \* the flattened results
  idx,                 \* loop index of the caching loop (1-based)
  enrichedIngredients, \* the value the call resolved to
  findLog,             \* name lists handed to IngredientAI.find, in issue order
  searchLog,           \* queries handed to searchSafetyData, in issue order
  requestLog,          \* the ingredient lists posted to the generation service, in issue order
  posted,              \* per batch: the request in flight
  malformed,           \* malformed response positions met by this call
  upsertLog,           \* keys handed to IngredientAI.updateOne, in issue order
  callNo,              \* calls started so far
  prev,                \* what the previous call did
  found,               \* history: aiMap as the lookup of this call built it
  batchThrew,          \* history: per batch, whether its try block threw
  faultFree,           \* history: no external call of this call failed or fell short
  builderInput,        \* Context Builder on its own: the safetyResults handed in
  builderOutput,       \* Context Builder on its own: the context it returned
  builderPc,           \* Context Builder on its own: "input" or "built"
  builderSibling,      \* Context Builder on its own: the safetyResults of a second name
  builderMap,          \* Context Builder on its own: the contextMap over both names
  fillBatch,           \* processBatch on its own: the batch
  fillOutcome,         \* processBatch on its own: what the call settled with
  fillOutput,          \* processBatch on its own: the value it resolved to
  fillPc,              \* processBatch on its own: "input" or "filled"
  callers,             \* overlapping calls: per call its name, position, doc and result
  writes,              \* overlapping calls: the upserts applied, in the order applied
  alertRun,            \* one call with its context kept: the locals of the call
  localStorage,        \* image cache: the browser's localStorage, key -> string or NoItem
  dateNow,             \* image cache: Date.now(), in ms since the first state
  clockTicks,          \* image cache: the number of times the clock advanced
  imageOps,            \* image cache: the number of calls made
  fetching,            \* image cache: per caller the query of its fetch in flight
  lastReturn           \* image cache: the call that returned last, and its value

vars == <<collection, pc, ingredientNames, aiMap, stillMissing, searches, ragContext,
          batchResults, llmResults, idx, enrichedIngredients, searchLog, requestLog,
          posted, malformed, upsertLog, callNo, prev, found, batchThrew, faultFree,
          findLog, builderInput, builderOutput, builderPc, builderSibling, builderMap,
          fillBatch, fillOutcome, fillOutput, fillPc, callers, writes, alertRun,
          localStorage, dateNow, clockTicks, imageOps, fetching, lastReturn>>

pipelineVars == <<collection, pc, ingredientNames, aiMap, stillMissing, searches,
                  ragContext, batchResults, llmResults, idx, enrichedIngredients,
                  searchLog, requestLog, posted, malformed, upsertLog, callNo, prev,
                  found, batchThrew, faultFree, findLog>>
pipelineVarsButCollection ==
  <<pc, ingredientNames, aiMap, stillMissing, searches, ragContext, batchResults,
    llmResults, idx, enrichedIngredients, searchLog, requestLog, posted, malformed,
    upsertLog, callNo, prev, found, batchThrew, faultFree, findLog>>
builderVars == <<builderInput, builderOutput, builderPc, builderSibling, builderMap>>
fillVars == <<fillBatch, fillOutcome, fillOutput, fillPc>>
overlapVars == <<callers, writes>>
alertVars == <<alertRun>>
imageVars == <<localStorage, dateNow, clockTicks, imageOps, fetching, lastReturn>>
unitVars == <<builderVars, fillVars, overlapVars, alertVars, imageVars>>

EmptyAiMap == [k \in Keys |-> Absent]
EmptyContext == [k \in {} |-> ZeroContext]
PendingSearch == [settled |-> FALSE, failed |-> FALSE, safetyResults |-> <<>>]
\* a processBatch promise: at is its rank among the promises settled so far
PendingBatch == [settled |-> FALSE, value |-> <<>>, at |-> 0]
\* a request that has been answered
Answered == [ingredients |-> <<>>, alertsHeader |-> FALSE, alerts |-> <<>>, maxTokens |-> 0]
NoPrev == [names |-> <<>>, pc |-> "idle", requests |-> 0, faultFree |-> TRUE]

PipelineIdle ==
  /\ pc = "idle"
  /\ ingredientNames = <<>>
  /\ aiMap = EmptyAiMap
  /\ stillMissing = <<>>
  /\ searches = <<>>
  /\ ragContext = EmptyContext
  /\ batchResults = <<>>
  /\ llmResults = <<>>
  /\ idx = 0
  /\ enrichedIngredients = <<>>
  /\ findLog = <<>>
  /\ searchLog = <<>>
  /\ requestLog = <<>>
  /\ posted = <<>>
  /\ malformed = 0
  /\ upsertLog = <<>>
  /\ callNo = 0
  /\ prev = NoPrev
  /\ found = EmptyAiMap
  /\ batchThrew = <<>>
  /\ faultFree = TRUE

BuilderIdle ==
  /\ builderInput = <<>>
  /\ builderOutput = ZeroContext
  /\ builderPc = "input"
  /\ builderSibling = <<>>
  /\ builderMap = EmptyContext

FillIdle ==
  /\ fillBatch = <<>>
  /\ fillOutcome = [error |-> NoVal, parsed |-> ParsedNull]
  /\ fillOutput = <<>>
  /\ fillPc = "input"

OverlapIdle ==
  /\ callers = <<>>
  /\ writes = <<>>

\* the locals of an enrich call that has not started
NotStarted(names) ==
  [pc |-> "find", ingredientNames |-> names, aiMap |-> EmptyAiMap, stillMissing |-> <<>>,
   ragContext |-> EmptyContext, request |-> Answered,
   outcome |-> [error |-> NoVal, parsed |-> NoParsed], llmResults |-> <<>>,
   upserts |-> <<>>, applied |-> <<>>, enrichedIngredients |-> <<>>]

AlertIdle == alertRun = NotStarted(<<>>)

\* JavaScript's null
Null == "<null>"

NoReturn == [op |-> "none", query |-> NoVal, value |-> Null, fetched |-> FALSE]

ImageIdle ==
  /\ localStorage = <<>>
  /\ dateNow = 0
  /\ clockTicks = 0
  /\ imageOps = 0
  /\ fetching = <<>>
  /\ lastReturn = NoReturn

Init ==
  /\ collection \in InitialCollections
  /\ PipelineIdle
  /\ BuilderIdle
  /\ FillIdle
  /\ OverlapIdle
  /\ AlertIdle
  /\ ImageIdle

\* variant: the first promise to settle is enough (Promise.race)
SettledAny(promises) == \E i \in DOMAIN promises : promises[i].settled

Settled(promises) == \A i \in DOMAIN promises : promises[i].settled

(***************************************************************************)
(* enrichIngredientsWithDetails                                            *)
(***************************************************************************)
\* the guard of the first statement: !ingredientNames ||
\* ingredientNames.length === 0
EmptyInputNever(given, names) == FALSE

EmptyInput(given, names) == ~given \/ Len(names) = 0

\* a caller invokes enrich: the empty list returns at once, any other list
\* issues IngredientAI.find
Call(names) ==
  /\ pc \in {"idle", "returned", "rejected"}
  /\ callNo < MaxCalls
  \* the calls that follow the first are calls for one name
  /\ callNo > 0 => Len(names) = 1
  /\ callNo' = callNo + 1
  /\ prev' = [names |-> ingredientNames, pc |-> pc, requests |-> Len(requestLog),
              faultFree |-> faultFree]
  /\ found' = EmptyAiMap
  /\ batchThrew' = <<>>
  /\ faultFree' = TRUE
  /\ ingredientNames' = names
  /\ aiMap' = EmptyAiMap
  /\ stillMissing' = <<>>
  /\ searches' = <<>>
  /\ ragContext' = EmptyContext
  /\ batchResults' = <<>>
  /\ llmResults' = <<>>
  /\ idx' = 0
  /\ enrichedIngredients' = <<>>
  /\ searchLog' = <<>>
  /\ requestLog' = <<>>
  /\ posted' = <<>>
  /\ malformed' = 0
  /\ upsertLog' = <<>>
  /\ IF EmptyInput(TRUE, names)
     THEN pc' = "returned" /\ findLog' = <<>>
     ELSE pc' = "find" /\ findLog' = <<names>>
  /\ UNCHANGED collection
  /\ UNCHANGED unitVars

\* a caller invokes enrich without an argument: the same guard returns the
\* empty list
CallWithout ==
  /\ EmptyInput(FALSE, <<>>)
  /\ Call(<<>>)

\* the value the call resolves to at its last statement
Returned(map) == Enriched(ingredientNames, map)

\* IngredientAI.find resolves: aiMap and stillMissing are built; without a
\* miss the call returns, otherwise retrieveSafetyContext issues one search
\* per position of stillMissing
FindResolves ==
  /\ pc = "find"
  /\ LET map == AiMapOf(collection, ingredientNames)
         missing == StillMissing(ingredientNames, map)
     IN  /\ aiMap' = map
         /\ found' = map
         /\ stillMissing' = missing
         /\ IF Len(missing) = 0
            THEN /\ enrichedIngredients' = Returned(map)
                 /\ pc' = "returned"
                 /\ UNCHANGED <<searches, searchLog>>
            ELSE /\ searches' = [i \in 1..Len(missing) |-> PendingSearch]
                 /\ searchLog' = missing
                 /\ pc' = "search"
                 /\ UNCHANGED enrichedIngredients
  /\ UNCHANGED <<collection, ingredientNames, ragContext, batchResults, llmResults, idx,
                 requestLog, upsertLog, callNo, prev, batchThrew, faultFree, posted, malformed, findLog>>
  /\ UNCHANGED unitVars

\* IngredientAI.find rejects: nothing catches it, the call rejects
FindRejects ==
  /\ pc = "find"
  /\ pc' = "rejected"
  /\ faultFree' = FALSE
  /\ UNCHANGED <<collection, ingredientNames, aiMap, stillMissing, searches, ragContext,
                 batchResults, llmResults, idx, enrichedIngredients, searchLog,
                 requestLog, upsertLog, callNo, prev, found, batchThrew, posted, malformed, findLog>>
  /\ UNCHANGED unitVars

(***************************************************************************)
(* retrieveSafetyContext                                                   *)
(***************************************************************************)
\* the corpus does not change while a call runs: two searches of one call for
\* the same query that both resolve, resolve alike
SameCorpus(i, answer) ==
  \A j \in DOMAIN searches :
     (searches[j].settled /\ ~searches[j].failed /\ stillMissing[j] = stillMissing[i])
        => searches[j].safetyResults = answer

\* searchSafetyData(...).then(...): the search of position i resolves
SearchResolves(i, answer) ==
  /\ pc = "search"
  /\ i \in DOMAIN searches
  /\ ~searches[i].settled
  /\ answer \in SearchAnswers
  /\ SameCorpus(i, answer)
  /\ searches' = [searches EXCEPT ![i] =
                    [settled |-> TRUE, failed |-> FALSE, safetyResults |-> answer]]
  /\ UNCHANGED <<collection, pc, ingredientNames, aiMap, stillMissing, ragContext,
                 batchResults, llmResults, idx, enrichedIngredients, searchLog,
                 requestLog, upsertLog, callNo, prev, found, batchThrew, faultFree, posted, malformed, findLog>>
  /\ UNCHANGED unitVars

\* searchSafetyData(...).catch(...): the search of position i rejects and
\* counts as no match
SearchRejects(i) ==
  /\ pc = "search"
  /\ i \in DOMAIN searches
  /\ ~searches[i].settled
  /\ searches' = [searches EXCEPT ![i] =
                    [settled |-> TRUE, failed |-> TRUE, safetyResults |-> <<>>]]
  /\ faultFree' = FALSE
  /\ UNCHANGED <<collection, pc, ingredientNames, aiMap, stillMissing, ragContext,
                 batchResults, llmResults, idx, enrichedIngredients, searchLog,
                 requestLog, upsertLog, callNo, prev, found, batchThrew, posted, malformed, findLog>>
  /\ UNCHANGED unitVars

\* contextMap of retrieveSafetyContext once Promise.all resolved
RetrievedContext ==
  ContextMapOf(stillMissing, [i \in DOMAIN searches |-> searches[i].safetyResults])

(***************************************************************************)
(* fetchIngredientFromLLMWithRAG                                           *)
(***************************************************************************)
\* variant: the fallback written for every name, found or not
AllFetchFailedForAll(map, missing) == [k \in Keys |-> FetchFailedDoc(k)]

\* the fallback loop of the orchestrator's catch block
AllFetchFailed(map, missing) ==
  [k \in Keys |-> IF k \in Range(missing) THEN FetchFailedDoc(k) ELSE map[k]]

\* Promise.all of the searches resolved, the context map is built and
\* fetchIngredientFromLLMWithRAG reads the credentials.  Present: every batch
\* is posted.  Absent: it throws, the orchestrator's catch block fills in the
\* fallbacks and the call returns.
RetrievalDone(credentials) ==
  /\ pc = "search"
  /\ Settled(searches)
  /\ ragContext' = RetrievedContext
  /\ searches' = <<>>
  /\ IF credentials
     THEN LET batches == Batches(stillMissing)
          IN  /\ posted' = [k \in 1..Len(batches) |-> RequestOf(batches[k], ragContext')]
              /\ requestLog' = batches
              /\ batchResults' = [k \in 1..Len(batches) |-> PendingBatch]
              /\ pc' = "generate"
              /\ batchThrew' = [k \in 1..Len(batches) |-> FALSE]
              /\ UNCHANGED <<aiMap, enrichedIngredients, faultFree>>
     ELSE /\ aiMap' = AllFetchFailed(aiMap, stillMissing)
          /\ enrichedIngredients' = Returned(aiMap')
          /\ pc' = "returned"
          /\ faultFree' = FALSE
          /\ UNCHANGED <<requestLog, posted, batchResults, batchThrew>>
  /\ UNCHANGED <<collection, ingredientNames, stillMissing, llmResults, idx, searchLog,
                 upsertLog, callNo, prev, found, malformed, findLog>>
  /\ UNCHANGED unitVars

\* the try block of processBatch ended normally and no position needed a fallback
Complete(batch, outcome) ==
  /\ BatchError(outcome) = NoVal
  /\ \A i \in 1..Len(batch) :
        i <= Len(ResultsOf(outcome.parsed)) /\ Truthy(ResultsOf(outcome.parsed)[i])

\* the call of batch k settles (axios.post, content, JSON.parse) and
\* processBatch resolves
BatchSettles(k, outcome) ==
  /\ pc = "generate"
  /\ k \in DOMAIN batchResults
  /\ ~batchResults[k].settled
  /\ batchResults' = [batchResults EXCEPT ![k] =
        [settled |-> TRUE, value |-> ProcessBatchResult(requestLog[k], outcome),
         at |-> 1 + Cardinality({j \in DOMAIN batchResults : batchResults[j].settled})]]
  /\ posted' = [posted EXCEPT ![k] = Answered]
  /\ malformed' = malformed + (IF outcome.parsed.kind \in {"array", "wrapped"}
                                THEN Malformed(requestLog[k], outcome.parsed.els) ELSE 0)
  /\ batchThrew' = [batchThrew EXCEPT ![k] = BatchError(outcome) # NoVal]
  /\ faultFree' = (faultFree /\ Complete(requestLog[k], outcome))
  /\ UNCHANGED <<collection, pc, ingredientNames, aiMap, stillMissing, searches,
                 ragContext, llmResults, idx, enrichedIngredients, searchLog,
                 requestLog, upsertLog, callNo, prev, found, findLog>>
  /\ UNCHANGED unitVars

(***************************************************************************)
(* The caching loop of enrichIngredientsWithDetails                        *)
(***************************************************************************)
\* stillMissing[idx], undefined past its end
MissingAt(i) == IF i \in DOMAIN stillMissing THEN stillMissing[i] ELSE NoVal

\* the doc of loop iteration i
DocAt(results, i) == DocOf(results[i].obj, MissingAt(i))

\* variant: the record filed under the name the response carries
AiMapSetUnderDocName(map, ingredientName, doc) == [map EXCEPT ![doc.name] = doc]

\* aiMap.set(ingredientName, doc)
AiMapSet(map, ingredientName, doc) == [map EXCEPT ![ingredientName] = doc]

\* updateOne({name: doc.name}, {$set: doc}, {upsert: true}) applied
Upserted(coll, doc) == [coll EXCEPT ![doc.name] = doc]

\* variant: the values in the order in which the promises settled
PromiseAllAsSettled(promises) ==
  [r \in DOMAIN promises |->
     promises[CHOOSE k \in DOMAIN promises : promises[k].at = r].value]

\* await Promise.all(batchPromises): the values in the order of the promises
PromiseAll(promises) == [k \in DOMAIN promises |-> promises[k].value]

\* Promise.all of the batches resolved: the results are flattened and the
\* first loop iteration builds its doc, sets aiMap and issues its upsert (with
\* no result the loop is skipped and the call returns).  ragContext is not
\* read after the requests were built and is forgotten here.
GenerationDone ==
  /\ pc = "generate"
  /\ Settled(batchResults)
  /\ llmResults' = Flat(PromiseAll(batchResults))
  /\ batchResults' = <<>>
  /\ posted' = <<>>
  /\ ragContext' = EmptyContext
  /\ IF Len(llmResults') > 0
     THEN /\ idx' = 1
          /\ aiMap' = AiMapSet(aiMap, MissingAt(1), DocAt(llmResults', 1))
          /\ upsertLog' = <<DocAt(llmResults', 1).name>>
          /\ pc' = "cache"
          /\ UNCHANGED enrichedIngredients
     ELSE /\ enrichedIngredients' = Returned(aiMap)
          /\ pc' = "returned"
          /\ UNCHANGED <<idx, aiMap, upsertLog>>
  /\ UNCHANGED <<collection, ingredientNames, stillMissing, searches,
                 searchLog, requestLog, callNo, prev, found, batchThrew, faultFree, malformed, findLog>>
  /\ UNCHANGED unitVars

\* variant: a rejected upsert is not caught inside the loop
DbErrorCaughtNever(applied) == applied

\* the try/catch around updateOne: a rejection is logged, never rethrown
DbErrorCaught(applied) == TRUE

\* the upsert of iteration idx settles (applied, or rejected and logged); the
\* loop goes on to the next iteration, or ends and the call returns
UpsertSettles(applied) ==
  /\ pc = "cache"
  /\ collection' = IF applied THEN Upserted(collection, DocAt(llmResults, idx))
                   ELSE collection
  /\ IF ~DbErrorCaught(applied)
     THEN /\ aiMap' = AllFetchFailed(aiMap, stillMissing)
          /\ enrichedIngredients' = Returned(aiMap')
          /\ pc' = "returned"
          /\ UNCHANGED <<idx, upsertLog>>
     ELSE IF idx < Len(llmResults)
     THEN /\ idx' = idx + 1
          /\ aiMap' = AiMapSet(aiMap, MissingAt(idx'), DocAt(llmResults, idx'))
          /\ upsertLog' = Append(upsertLog, DocAt(llmResults, idx').name)
          /\ UNCHANGED <<pc, enrichedIngredients>>
     ELSE /\ enrichedIngredients' = Returned(aiMap)
          /\ pc' = "returned"
          /\ UNCHANGED <<idx, aiMap, upsertLog>>
  /\ faultFree' = (faultFree /\ applied)
  /\ UNCHANGED <<ingredientNames, stillMissing, searches, ragContext, batchResults,
                 llmResults, searchLog, requestLog, callNo, prev, found, batchThrew,
                 posted, malformed, findLog>>
  /\ UNCHANGED unitVars

Next ==
  \/ \E names \in ShortInputs \cup LongInputs : Call(names)
  \/ CallWithout
  \/ FindResolves
  \/ FindRejects
  \/ \E i \in 1..(BATCH_SIZE + MaxExtra), answer \in SearchAnswers : SearchResolves(i, answer)
  \/ \E i \in 1..(BATCH_SIZE + MaxExtra) : SearchRejects(i)
  \/ \E credentials \in BOOLEAN : RetrievalDone(credentials)
  \/ \E k \in DOMAIN batchResults :
        \E outcome \in BatchOutcomes(requestLog[k], MaxAnomalies - malformed) :
           BatchSettles(k, outcome)
  \/ GenerationDone
  \/ \E applied \in BOOLEAN : UpsertSettles(applied)

Spec == Init /\ [][Next]_vars

\* a step of the running call: an awaited external call settles (resolves,
\* rejects or times out) and the call runs on to its next await or its end
CallStep ==
  \/ FindResolves
  \/ FindRejects
  \/ \E i \in 1..(BATCH_SIZE + MaxExtra), answer \in SearchAnswers : SearchResolves(i, answer)
  \/ \E i \in 1..(BATCH_SIZE + MaxExtra) : SearchRejects(i)
  \/ \E credentials \in BOOLEAN : RetrievalDone(credentials)
  \/ \E k \in DOMAIN batchResults :
        \E outcome \in BatchOutcomes(requestLog[k], MaxAnomalies - malformed) :
           BatchSettles(k, outcome)
  \/ GenerationDone
  \/ \E applied \in BOOLEAN : UpsertSettles(applied)

\* every external call that is awaited settles in the end
SpecFair == Spec /\ WF_vars(CallStep)

(***************************************************************************)
(* The Context Builder on its own: the forEach body of                     *)
(* retrieveSafetyContext applied to one ranked list of matches             *)
(***************************************************************************)
\* matches per list tried
MaxMatches == 2

BuilderSims == {820, 850, 851, 900, 950}
BuilderMatches == {[data |-> d, similarity |-> s] :
                     d \in {BannedRow, BlankRow}, s \in BuilderSims}
BuilderInputs == {hits \in SeqsUpTo(BuilderMatches, MaxMatches) : Descending(hits)}

\* the two names whose results are handed to the forEach
BuilderNames == <<"A", "B">>

InitBuilder ==
  /\ collection = [k \in Keys |-> Absent]
  /\ PipelineIdle
  /\ builderInput \in BuilderInputs
  /\ builderOutput = ZeroContext
  /\ builderPc = "input"
  /\ builderSibling \in SearchAnswers
  /\ builderMap = EmptyContext
  /\ FillIdle
  /\ OverlapIdle
  /\ AlertIdle
  /\ ImageIdle

BuildContext ==
  /\ builderPc = "input"
  /\ builderOutput' = SafetyContextOf(builderInput)
  /\ builderMap' = ContextMapOf(BuilderNames, <<builderInput, builderSibling>>)
  /\ builderPc' = "built"
  /\ UNCHANGED <<builderInput, builderSibling, pipelineVars, fillVars, overlapVars, alertVars,
                 imageVars>>

NextBuilder == BuildContext

SpecBuilder == InitBuilder /\ [][NextBuilder]_vars

(***************************************************************************)
(* processBatch on its own, from the settling of its call on: one batch    *)
(* and one outcome of axios.post, the content and JSON.parse               *)
(***************************************************************************)
FillBatches == SeqsUpTo(Names, MaxLen) \ {<<>>}

\* the arrays a cuts short to
Prefixes(a) == {SubSeq(a, 1, m) : m \in 0..Len(a)}

\* the outcomes of BatchOutcomes with any number of malformed positions, and
\* the arrays (bare or wrapped) of any length up to the batch's
FillOutcomes(batch) ==
  BatchOutcomes(batch, Len(batch))
  \cup {[error |-> NoVal, parsed |-> v] :
          v \in UNION {{ParsedArray(a), ParsedWrapping(a)} :
                         a \in UNION {Prefixes(b) : b \in ArraysFor(batch, Len(batch))}}}
  \cup {[error |-> NoVal, parsed |-> ParsedObject(o.obj)] :
          o \in {ObjEl(GoodObj(batch[1])), ObjEl(GoodObj(ForeignName)), ObjEl(EmptyObj)}}

InitFill ==
  /\ collection = [k \in Keys |-> Absent]
  /\ PipelineIdle
  /\ BuilderIdle
  /\ fillBatch \in FillBatches
  /\ fillOutcome \in FillOutcomes(fillBatch)
  /\ fillOutput = <<>>
  /\ fillPc = "input"
  /\ OverlapIdle
  /\ AlertIdle
  /\ ImageIdle

Fill ==
  /\ fillPc = "input"
  /\ fillOutput' = ProcessBatchResult(fillBatch, fillOutcome)
  /\ fillPc' = "filled"
  /\ UNCHANGED <<fillBatch, fillOutcome, pipelineVars, builderVars, overlapVars, alertVars,
                 imageVars>>

NextFill == Fill

SpecFill == InitFill /\ [][NextFill]_vars

(***************************************************************************)
(* Two enrich([x]) calls on one collection, their steps interleaved: each  *)
(* looks x up, on a miss generates (one batch of one name), builds its doc *)
(* and upserts it, then returns                                            *)
(***************************************************************************)
Callers == {1, 2}

InitOverlap ==
  /\ collection \in InitialCollections
  /\ PipelineIdle
  /\ BuilderIdle
  /\ FillIdle
  /\ \E x \in Names :
        callers = [i \in Callers |-> [name |-> x, pc |-> "find", doc |-> Absent,
                                       enriched |-> <<>>]]
  /\ writes = <<>>
  /\ AlertIdle
  /\ ImageIdle

\* IngredientAI.find of call i resolves: a hit returns the record found, a
\* miss goes on to retrieval and generation
OverlapFind(i) ==
  /\ callers[i].pc = "find"
  /\ LET x == callers[i].name
         map == AiMapOf(collection, <<x>>)
     IN  callers' = [callers EXCEPT ![i] =
           IF StillMissing(<<x>>, map) = <<>>
           THEN [@ EXCEPT !.pc = "returned", !.enriched = Enriched(<<x>>, map)]
           ELSE [@ EXCEPT !.pc = "generate"]]
  /\ UNCHANGED <<collection, writes>>
  /\ UNCHANGED <<pipelineVarsButCollection, builderVars, fillVars, alertVars, imageVars>>

\* the one batch of call i settles; the loop builds the doc, sets aiMap and
\* issues the upsert
OverlapGenerated(i, outcome) ==
  /\ callers[i].pc = "generate"
  /\ LET x == callers[i].name
         llmResults1 == Flat(<<ProcessBatchResult(<<x>>, outcome)>>)
     IN  callers' = [callers EXCEPT ![i] =
           [@ EXCEPT !.pc = "cache", !.doc = DocOf(llmResults1[1].obj, x)]]
  /\ UNCHANGED <<collection, writes>>
  /\ UNCHANGED <<pipelineVarsButCollection, builderVars, fillVars, alertVars, imageVars>>

\* the upsert of call i settles, applied at once or rejected, and the call
\* returns
OverlapUpsertSettles(i, applied) ==
  /\ callers[i].pc = "cache"
  /\ LET x == callers[i].name
         doc == callers[i].doc
     IN  /\ collection' = IF applied THEN Upserted(collection, doc) ELSE collection
         /\ writes' = IF applied THEN Append(writes, [call |-> i, doc |-> doc]) ELSE writes
         /\ callers' = [callers EXCEPT ![i] =
               [@ EXCEPT !.pc = "returned",
                         !.enriched = Enriched(<<x>>, AiMapSet(EmptyAiMap, x, doc))]]
  /\ UNCHANGED <<pipelineVarsButCollection, builderVars, fillVars, alertVars, imageVars>>

NextOverlap ==
  \/ \E i \in Callers : OverlapFind(i)
  \/ \E i \in Callers :
        \E outcome \in BatchOutcomes(<<callers[i].name>>, MaxAnomalies) :
           OverlapGenerated(i, outcome)
  \/ \E i \in Callers, applied \in BOOLEAN : OverlapUpsertSettles(i, applied)

SpecOverlap == InitOverlap /\ [][NextOverlap]_vars

(***************************************************************************)
(* One enrich call of a single batch with every local kept to the end      *)
(* (the context, the request, the response as parsed): the lookup and the  *)
(* retrieval, the generation call, and the caching loop with the return    *)
(***************************************************************************)
\* the state of the caching loop after the iterations over results: aiMap,
\* the collection, and the docs handed to updateOne
RECURSIVE CachingLoop(_, _, _, _, _)
CachingLoop(map, coll, missing, results, applied) ==
  IF results = <<>> THEN [aiMap |-> map, collection |-> coll, upserts |-> <<>>]
  ELSE LET n == Len(results)
           before == CachingLoop(map, coll, missing, SubSeq(results, 1, n - 1), applied)
           ingredientName == IF n \in DOMAIN missing THEN missing[n] ELSE NoVal
           doc == DocOf(results[n].obj, ingredientName)
       IN  [aiMap |-> AiMapSet(before.aiMap, ingredientName, doc),
            collection |-> IF applied[n] THEN Upserted(before.collection, doc)
                           ELSE before.collection,
            upserts |-> Append(before.upserts, doc)]

\* the answers of the searches of one call: one per position, alike for the
\* positions of one name
AnswersFor(missing) ==
  {answers \in [DOMAIN missing -> SearchAnswers] :
      \A i, j \in DOMAIN missing : missing[i] = missing[j] => answers[i] = answers[j]}

InitAlerted ==
  /\ collection \in InitialCollections
  /\ PipelineIdle
  /\ BuilderIdle
  /\ FillIdle
  /\ OverlapIdle
  /\ ImageIdle
  /\ \E names \in ShortInputs \ {<<>>} : alertRun = NotStarted(names)

\* the lookup resolves; on a miss the searches are issued and resolve, the
\* context is built and the request of the one batch is posted
AlertedRetrieve(answers) ==
  /\ alertRun.pc = "find"
  /\ LET names == alertRun.ingredientNames
         map == AiMapOf(collection, names)
         missing == StillMissing(names, map)
         context == ContextMapOf(missing, answers)
     IN  /\ DOMAIN answers = DOMAIN missing
         /\ alertRun' =
               IF Len(missing) = 0
               THEN [alertRun EXCEPT !.pc = "returned", !.aiMap = map,
                                     !.enrichedIngredients = Enriched(names, map)]
               ELSE [alertRun EXCEPT !.pc = "generate", !.aiMap = map,
                                     !.stillMissing = missing, !.ragContext = context,
                                     !.request = RequestOf(Batches(missing)[1], context)]
  /\ UNCHANGED <<pipelineVars, builderVars, fillVars, overlapVars, imageVars>>

\* the call of the batch settles, processBatch resolves and the results are
\* flattened
AlertedGenerate(outcome) ==
  /\ alertRun.pc = "generate"
  /\ alertRun' = [alertRun EXCEPT
        !.pc = "cache", !.outcome = outcome,
        !.llmResults = Flat(<<ProcessBatchResult(alertRun.request.ingredients, outcome)>>)]
  /\ UNCHANGED <<pipelineVars, builderVars, fillVars, overlapVars, imageVars>>

\* the caching loop runs (the upsert of iteration i applied or rejected as
\* applied[i] says) and the call returns
AlertedCache(applied) ==
  /\ alertRun.pc = "cache"
  /\ DOMAIN applied = DOMAIN alertRun.llmResults
  /\ LET after == CachingLoop(alertRun.aiMap, collection, alertRun.stillMissing,
                              alertRun.llmResults, applied)
     IN  /\ collection' = after.collection
         /\ alertRun' = [alertRun EXCEPT
               !.pc = "returned", !.aiMap = after.aiMap, !.upserts = after.upserts,
               !.applied = applied,
               !.enrichedIngredients = Enriched(alertRun.ingredientNames, after.aiMap)]
  /\ UNCHANGED <<pipelineVarsButCollection, builderVars, fillVars, overlapVars, imageVars>>

NextAlerted ==
  \/ \E answers \in AnswersFor(StillMissing(alertRun.ingredientNames,
                                             AiMapOf(collection, alertRun.ingredientNames))) :
        AlertedRetrieve(answers)
  \/ /\ alertRun.pc = "generate"
     /\ \E outcome \in BatchOutcomes(alertRun.request.ingredients, MaxAnomalies) :
           AlertedGenerate(outcome)
  \/ \E applied \in [DOMAIN alertRun.llmResults -> BOOLEAN] : AlertedCache(applied)

SpecAlerted == InitAlerted /\ [][NextAlerted]_vars

(***************************************************************************)
(* The product image cache of the front end (utils/imageCache.js):         *)
(* getCachedImage, setCachedImage, getProductImage, cleanupImageCache over *)
(* localStorage.  A key is the sequence of its parts (the prefix, then the *)
(* encoded query); time is Date.now() in milliseconds.                     *)
(***************************************************************************)
\* clock advances in a behaviour
MaxTicks == 3
\* calls of the cache functions in a behaviour
MaxImageOps == 3

CACHE_KEY_PREFIX == "productImage_"
CACHE_EXPIRY_DAYS == 7
\* expiryTime
ExpiryTime == CACHE_EXPIRY_DAYS * 24 * 60 * 60 * 1000

\* what a throwing call yields
Threw == "<threw>"

\* queries of Latin-1 characters, and one with a character outside Latin-1
EncodableQueries == {"serum", "toner"}
ImageQueries == EncodableQueries \cup {"query with a character above U+00FF"}

\* btoa(query): the base64 text of a Latin-1 string; it throws on any other
Btoa(query) ==
  IF query = "serum" THEN "c2VydW0="
  ELSE IF query = "toner" THEN "dG9uZXI="
  ELSE Threw

\* CACHE_KEY_PREFIX + btoa(query)
CacheKey(query) == <<CACHE_KEY_PREFIX, Btoa(query)>>

\* key.startsWith(prefix)
StartsWith(key, prefix) == Len(key) > 0 /\ key[1] = prefix

\* localStorage.getItem of a key that is not stored
NoItem == [kind |-> "null", imageUrl |-> NoVal, timestamp |-> 0]
\* a stored string that is not JSON
Text == [kind |-> "text", imageUrl |-> NoVal, timestamp |-> 0]

\* JSON.stringify({imageUrl, timestamp})
JsonStringify(cacheData) ==
  [kind |-> "json", imageUrl |-> cacheData.imageUrl, timestamp |-> cacheData.timestamp]

\* JSON.parse(cached) and the destructuring of imageUrl and timestamp
JsonParse(cached) ==
  IF cached.kind = "json"
  THEN [threw |-> FALSE, imageUrl |-> cached.imageUrl, timestamp |-> cached.timestamp]
  ELSE [threw |-> TRUE, imageUrl |-> NoVal, timestamp |-> 0]

\* variant: an entry of exactly the expiry age still counts as fresh
FreshInclusive(time, timestamp) == time - timestamp <= ExpiryTime

\* now - timestamp < expiryTime
Fresh(time, timestamp) == time - timestamp < ExpiryTime

\* variant: an entry of exactly the expiry age is not yet expired
ExpiredStrictly(time, timestamp) == time - timestamp > ExpiryTime

\* now - timestamp >= expiryTime
Expired(time, timestamp) == time - timestamp >= ExpiryTime

\* localStorage.removeItem(key)
RemoveItem(storage, key) == [storage EXCEPT ![key] = NoItem]

\* getCachedImage(query) at time: the value returned and the storage left
GetCachedImage(storage, time, query) ==
  IF Btoa(query) = Threw THEN [value |-> Null, storage |-> storage]
  ELSE LET cacheKey == CacheKey(query)
           cached == storage[cacheKey]
           parsed == JsonParse(cached)
       IN  IF cached = NoItem THEN [value |-> Null, storage |-> storage]
           ELSE IF parsed.threw THEN [value |-> Null, storage |-> storage]
           ELSE IF Fresh(time, parsed.timestamp)
                THEN [value |-> parsed.imageUrl, storage |-> storage]
                ELSE [value |-> Null, storage |-> RemoveItem(storage, cacheKey)]

\* setCachedImage(query, imageUrl) at time; setItem throws when the quota
\* is exceeded
SetCachedImage(storage, time, query, imageUrl, quotaLeft) ==
  IF Btoa(query) = Threw \/ ~quotaLeft THEN storage
  ELSE [storage EXCEPT ![CacheKey(query)] =
          JsonStringify([imageUrl |-> imageUrl, timestamp |-> time])]

\* keysToRemove of cleanupImageCache() at time
KeysToRemove(storage, time) ==
  LET stored == {key \in DOMAIN storage : storage[key] # NoItem}
  IN  {key \in stored :
         /\ StartsWith(key, CACHE_KEY_PREFIX)
         /\ \/ JsonParse(storage[key]).threw
            \/ Expired(time, JsonParse(storage[key]).timestamp)}

\* cleanupImageCache() at time: the keys are collected, then removed
CleanupImageCache(storage, time) ==
  [key \in DOMAIN storage |->
     IF key \in KeysToRemove(storage, time) THEN NoItem ELSE storage[key]]

\* a key with the prefix that no query of the model encodes to, and keys
\* of other parts of the application
LeftoverKey == <<CACHE_KEY_PREFIX, "bGVmdG92ZXI=">>
OtherKeys == {<<"theme">>, <<"backup_productImage_", "c2VydW0=">>}
StorageKeys == {CacheKey(q) : q \in EncodableQueries} \cup {LeftoverKey} \cup OtherKeys

ImageUrls == {"https://img/1", "https://img/2"}

\* what the fetch of getProductImage and res.json() may settle with
FetchResponses ==
  {[threw |-> TRUE, ok |-> FALSE, imageUrl |-> NoVal],
   [threw |-> FALSE, ok |-> FALSE, imageUrl |-> NoVal],
   [threw |-> FALSE, ok |-> TRUE, imageUrl |-> NoVal]}
  \cup {[threw |-> FALSE, ok |-> TRUE, imageUrl |-> u] : u \in ImageUrls}

\* the instants at which the clock is read: just before and at a multiple of
\* the expiry time
ClockAdvances == {1, ExpiryTime - 1}
\* the clock is followed over three expiry times
Horizon == 3 * ExpiryTime

InitImages ==
  /\ collection = [k \in Keys |-> Absent]
  /\ PipelineIdle
  /\ BuilderIdle
  /\ FillIdle
  /\ OverlapIdle
  /\ AlertIdle
  /\ localStorage \in
        {[key \in StorageKeys |->
            IF key \in OtherKeys THEN Text
            ELSE IF key = LeftoverKey THEN leftover
            ELSE NoItem] : leftover \in {NoItem, Text}}
  /\ dateNow = 0
  /\ clockTicks = 0
  /\ imageOps = 0
  /\ fetching = [c \in Callers |-> NoVal]
  /\ lastReturn = NoReturn

restOfModel == <<pipelineVars, builderVars, fillVars, overlapVars, alertVars>>

\* time passes
Tick(d) ==
  /\ clockTicks < MaxTicks
  /\ d <= Horizon - dateNow
  /\ clockTicks' = clockTicks + 1
  /\ dateNow' = dateNow + d
  /\ UNCHANGED <<localStorage, imageOps, fetching, lastReturn, restOfModel>>

\* getCachedImage(query) is called
ReadCachedImage(query) ==
  /\ imageOps < MaxImageOps
  /\ imageOps' = imageOps + 1
  /\ LET read == GetCachedImage(localStorage, dateNow, query)
     IN  /\ localStorage' = read.storage
         /\ lastReturn' = [op |-> "getCachedImage", query |-> query,
                           value |-> read.value, fetched |-> FALSE]
  /\ UNCHANGED <<dateNow, clockTicks, fetching, restOfModel>>

\* caller c calls getProductImage(query): a cached image is returned at
\* once, otherwise the fetch is issued
ProductImageCalled(c, query) ==
  /\ fetching[c] = NoVal
  /\ imageOps < MaxImageOps
  /\ imageOps' = imageOps + 1
  /\ LET read == GetCachedImage(localStorage, dateNow, query)
     IN  /\ localStorage' = read.storage
         /\ IF read.value # Null
            THEN /\ lastReturn' = [op |-> "getProductImage", query |-> query,
                                   value |-> read.value, fetched |-> FALSE]
                 /\ UNCHANGED fetching
            ELSE /\ fetching' = [fetching EXCEPT ![c] = query]
                 /\ UNCHANGED lastReturn
  /\ UNCHANGED <<dateNow, clockTicks, restOfModel>>

\* the fetch of caller c and res.json() settle: an image URL is cached and
\* returned; a failed fetch, a status that is not ok, a body without imageUrl
\* return null
ProductImageSettles(c, res, quotaLeft) ==
  /\ fetching[c] # NoVal
  /\ fetching' = [fetching EXCEPT ![c] = NoVal]
  /\ LET query == fetching[c]
         hasImage == ~res.threw /\ res.ok /\ res.imageUrl # NoVal
     IN  /\ localStorage' =
               IF hasImage
               THEN SetCachedImage(localStorage, dateNow, query, res.imageUrl, quotaLeft)
               ELSE localStorage
         /\ lastReturn' = [op |-> "getProductImage", query |-> query,
                           value |-> IF hasImage THEN res.imageUrl ELSE Null,
                           fetched |-> TRUE]
  /\ UNCHANGED <<dateNow, clockTicks, imageOps, restOfModel>>

\* cleanupImageCache() is called; it logs the number of keys removed
Cleanup ==
  /\ imageOps < MaxImageOps
  /\ imageOps' = imageOps + 1
  /\ localStorage' = CleanupImageCache(localStorage, dateNow)
  /\ lastReturn' = [op |-> "cleanupImageCache", query |-> NoVal,
                    value |-> Cardinality(KeysToRemove(localStorage, dateNow)),
                    fetched |-> FALSE]
  /\ UNCHANGED <<dateNow, clockTicks, fetching, restOfModel>>

NextImages ==
  \/ \E d \in ClockAdvances : Tick(d)
  \/ \E query \in ImageQueries : ReadCachedImage(query)
  \/ \E c \in Callers, query \in ImageQueries : ProductImageCalled(c, query)
  \/ \E c \in Callers, res \in FetchResponses, quotaLeft \in BOOLEAN :
        ProductImageSettles(c, res, quotaLeft)
  \/ Cleanup

SpecImages == InitImages /\ [][NextImages]_vars

(***************************************************************************)
(* Properties                                                              *)
(***************************************************************************)
\* the batch a position of stillMissing is sent in
BatchOf(j) == ((j - 1) \div 5) + 1

\* names with a position in a batch whose generation call failed
FailedNames ==
  {stillMissing[j] : j \in {i \in DOMAIN stillMissing :
                               BatchOf(i) \in DOMAIN batchThrew /\ batchThrew[BatchOf(i)]}}

\* the credentials were absent: the call returned without posting a request
CredentialsAbsent == pc = "returned" /\ stillMissing # <<>> /\ requestLog = <<>>

\* the positions of the input that hold name n
PositionsOf(n) == {i \in DOMAIN ingredientNames : ingredientNames[i] = n}

\* names the lookup of the running call found in the collection
Hits == {n \in Range(ingredientNames) : found[n] # Absent}

\* C1: whatever the lookup, the searches and the generation calls answer
\* (objects under another name included), the list enrich returns carries at
\* every index the name the input has at that index.
C1_OrderPreservation ==
  pc = "returned" =>
    \A i \in DOMAIN ingredientNames :
       i \in DOMAIN enrichedIngredients /\ enrichedIngredients[i].name = ingredientNames[i]

\* C2: enrich never rejects, whichever of the lookup, the searches, the
\* generation calls, the credentials and the upserts fail, and every record it
\* returns for a name whose generation failed has risk level Unknown and a
\* non-empty reason.
C2_NoExceptionCrosses ==
  /\ pc # "rejected"
  /\ pc = "returned" =>
       \A n \in FailedNames \cup (IF CredentialsAbsent THEN Range(stillMissing) ELSE {}) :
          \A i \in PositionsOf(n) :
             /\ i \in DOMAIN enrichedIngredients
             /\ enrichedIngredients[i].risk_level = "Unknown"
             /\ enrichedIngredients[i].reason # ""

\* C3: enrich([x]) called again after enrich([x]) completed is a full cache
\* hit (no search, no request, no upsert) and the two calls together post at
\* most one generation request.  Stated for the first calls most favourable to
\* the claim: those in which no external call failed or fell short.
C3_CacheIdempotence ==
  (/\ callNo >= 2
   /\ Len(ingredientNames) = 1
   /\ prev.names = ingredientNames
   /\ prev.pc = "returned"
   /\ prev.faultFree)
  => /\ searchLog = <<>>
     /\ requestLog = <<>>
     /\ upsertLog = <<>>
     /\ prev.requests + Len(requestLog) <= 1

IsFallbackFor(record, n) ==
  /\ record.name = n
  /\ record.description = "Information not available"
  /\ record.benefits = <<>>
  /\ record.good_for = <<>>
  /\ record.risk_level = "Unknown"
  /\ record.reason # ""

\* C4: when the generation call of a batch fails, every name of that batch is
\* in the output of enrich, with a record that carries the requested name,
\* the description 'Information not available', no benefits, no good_for, risk
\* level Unknown and a non-empty reason.
C4_FallbackCompleteness ==
  pc = "returned" =>
    \A n \in FailedNames :
       /\ PositionsOf(n) # {}
       /\ \A i \in PositionsOf(n) :
             /\ i \in DOMAIN enrichedIngredients
             /\ IsFallbackFor(enrichedIngredients[i], n)

\* C5: when the lookup fails, the call goes on with every input name as a
\* miss: one search per input name is issued (and the call does not reject).
C5_LookupFailureIsMiss ==
  [][(pc = "find" /\ ~faultFree')
       => (pc' = "search" /\ stillMissing' = ingredientNames
                          /\ searchLog' = ingredientNames)]_vars

\* C6: whenever enrich returns, the list has the length of the input: no
\* position is dropped, whatever mix of hits, misses, failures, short and
\* long responses the call met (a null entry is filtered out of the list, so
\* a list of full length has none).
C6_OutputAligned ==
  pc = "returned" => Len(enrichedIngredients) = Len(ingredientNames)

\* a call over a hit and a miss whose response fell short has returned
C6_Witness ==
  /\ pc = "returned"
  /\ Hits # {}
  /\ \E i \in DOMAIN llmResults : llmResults[i].obj.reason = "LLM response incomplete"
  /\ Len(enrichedIngredients) = 2

\* requests holds missing in consecutive slices of 5, only the last one short
Partitioned(requests, missing) ==
  LET n == Len(missing)
  IN  /\ Len(requests) = (n + 4) \div 5
      /\ \A k \in DOMAIN requests :
            LET b == requests[k]
                first == 5 * (k - 1) + 1
                last == IF 5 * k < n THEN 5 * k ELSE n
            IN  /\ Len(b) = last - first + 1
                /\ Len(b) \in 1..5
                /\ (Len(b) < 5 => k = Len(requests))
                /\ \A j \in 1..Len(b) : b[j] = missing[first + j - 1]

\* the requests posted partition stillMissing
PartitionHolds == requestLog # <<>> => Partitioned(requestLog, stillMissing)

\* the longest list of missing names the slicing is computed for
MaxMissing == 12

\* the sizes of the slices of n names
SliceSizes(n) == [k \in DOMAIN Batches(Alternating(n)) |-> Len(Batches(Alternating(n))[k])]

\* C7: n missing names are posted in ceil(n/5) requests, request k holding
\* the consecutive names 5k .. min(5k+4, n-1) (0-based) in input order, each
\* of 1 to 5 names and only the last one short (the slicing that posts the
\* requests cuts 12 names in slices of 5, 5 and 2); the flattened result has length n and its position j is what the
\* batch of position j resolved to for that position.
C7_BatchPartition ==
  [][/\ PartitionHolds'
     /\ (pc = "search" /\ pc' = "generate") =>
          /\ \A n \in 0..MaxMissing :
                Partitioned(Batches(Alternating(n)), Alternating(n))
          /\ MaxMissing >= 12 => SliceSizes(12) = <<5, 5, 2>>
     /\ (pc = "generate" /\ pc' # "generate") =>
          /\ Len(llmResults') = Len(stillMissing)
          /\ \A j \in DOMAIN llmResults' :
                llmResults'[j] = batchResults[BatchOf(j)].value[j - 5 * (BatchOf(j) - 1)]]_vars

\* six missing names went out as a batch of five and a batch of one, and came
\* back as six results
C7_Witness ==
  /\ pc = "cache"
  /\ Len(stillMissing) = 6
  /\ Len(requestLog) = 2
  /\ Len(requestLog[1]) = 5
  /\ Len(requestLog[2]) = 1
  /\ Len(llmResults) = 6
  /\ SliceSizes(12) = <<5, 5, 2>>

\* C8: a name the lookup found is not searched, not in any request and not
\* upserted during the call, and its output record is the record found;
\* searches and requests are for the names the lookup did not find.
C8_PartialCache ==
  /\ \A n \in Hits :
        /\ n \notin Range(searchLog)
        /\ \A k \in DOMAIN requestLog : n \notin Range(requestLog[k])
        /\ n \notin Range(upsertLog)
        /\ pc = "returned" =>
             \A i \in PositionsOf(n) :
                /\ i \in DOMAIN enrichedIngredients
                /\ enrichedIngredients[i] = FrontEndFields(found[n])
  /\ Range(searchLog) \subseteq Range(ingredientNames) \ Hits

\* C9: the context built of a list of matches has has_safety_concerns exactly
\* when some match has a similarity above 0.85; otherwise it is the zero
\* context; every matched substance has a similarity above 0.85.  A single
\* match at 0.82 or at 0.85 gives the zero context, one at 0.90 a concern.
C9_ThresholdSeparation ==
  builderPc = "built" =>
    /\ builderOutput.has_safety_concerns
         <=> (\E i \in DOMAIN builderInput : builderInput[i].similarity > 850)
    /\ ~builderOutput.has_safety_concerns => builderOutput = ZeroContext
    /\ \A i \in DOMAIN builderOutput.matched_substances :
          builderOutput.matched_substances[i].similarity > 850
    /\ (Len(builderInput) = 1 /\ builderInput[1].similarity \in {820, 850})
         => builderOutput = ZeroContext
    /\ (Len(builderInput) = 1 /\ builderInput[1].similarity = 900)
         => builderOutput.has_safety_concerns

\* a single match at exactly 0.85 was built into the zero context
C9_Witness ==
  /\ builderPc = "built"
  /\ Len(builderInput) = 1
  /\ builderInput[1].similarity = 850
  /\ builderOutput = ZeroContext

Qualifies(n) ==
  /\ n \in DOMAIN ragContext
  /\ ragContext[n].has_safety_concerns
  /\ ragContext[n].highest_similarity > 850

\* C10: the names a request carries alert lines for are the names of its own
\* batch whose context has a safety concern with highest similarity above
\* 0.85, and the request has an alerts section exactly when there is one.
C10_AlertsOnlyForQualifying ==
  \A k \in DOMAIN posted :
     posted[k] # Answered =>
       LET r == posted[k]
           alerted == {r.alerts[i].ingredient : i \in DOMAIN r.alerts}
       IN  /\ r.ingredients = requestLog[k]
           /\ alerted = {n \in Range(requestLog[k]) : Qualifies(n)}
           /\ r.alertsHeader <=> (alerted # {})

\* "A" has a concern and "B" has none: the batch with both alerts for "A"
\* only, and the second batch, which holds "B" alone, has no alerts section
C10_Witness ==
  /\ Len(posted) = 2
  /\ Qualifies("A")
  /\ ~Qualifies("B")
  /\ {posted[1].alerts[i].ingredient : i \in DOMAIN posted[1].alerts} = {"A"}
  /\ posted[2].ingredients = <<"B">>
  /\ ~posted[2].alertsHeader

\* C11: a call with the empty (or no) list returns the empty list at once:
\* no lookup, no search, no generation request and no upsert is issued, and
\* the collection is left as it was.
C11_EmptyInputNoCalls ==
  [][(callNo' > 0 /\ ingredientNames' = <<>>)
       => /\ pc' = "returned"
          /\ enrichedIngredients' = <<>>
          /\ findLog' = <<>>
          /\ searchLog' = <<>>
          /\ requestLog' = <<>>
          /\ upsertLog' = <<>>
          /\ collection' = collection]_vars

\* the empty list was enriched over a collection that holds records
C11_Witness ==
  /\ callNo = 1
  /\ ingredientNames = <<>>
  /\ pc = "returned"
  /\ enrichedIngredients = <<>>
  /\ collection["A"] # Absent

\* the last position of missing that holds name n
LastPositionIn(missing, n) ==
  LET at == {j \in DOMAIN missing : missing[j] = n}
  IN  CHOOSE j \in at : \A k \in at : k <= j

\* every position of a missing name is returned with the record built of the
\* result of the name's last position
ReturnsLastGenerated(names, missing, results, enriched) ==
  \A p \in DOMAIN names :
     names[p] \in Range(missing) =>
       /\ p \in DOMAIN enriched
       /\ enriched[p] =
            FrontEndFields(DocOf(results[LastPositionIn(missing, names[p])].obj,
                                 names[p]))

C13_RetrievalIsolation ==
  [][(pc = "search" /\ pc' # "search") =>
       /\ \A i \in DOMAIN searches :
             IF searches[i].failed
             THEN ragContext'[stillMissing[i]] = ZeroContext
             ELSE (\A j \in DOMAIN searches :
                      stillMissing[j] = stillMissing[i] => ~searches[j].failed)
                  => ragContext'[stillMissing[i]] =
                       SafetyContextOf(searches[i].safetyResults)
       /\ pc' = "generate" => Flat(requestLog') = stillMissing]_vars

\* C14: when the credentials are absent the call returns with the fallback
\* record (requested name, 'Information not available', no benefits, no
\* good_for, Unknown, a non-empty reason) at every position of a missing name
\* and the record found at every position of a cached name; it posts no
\* request, attempts no upsert and leaves the collection as it was, so that
\* nothing of the failure outlives the call.
C14_ConfigurationFailure ==
  [][(pc = "search" /\ pc' = "returned") =>
       /\ requestLog' = <<>>
       /\ upsertLog' = <<>>
       /\ collection' = collection
       /\ Len(enrichedIngredients') = Len(ingredientNames)
       /\ \A p \in DOMAIN ingredientNames :
             LET n == ingredientNames[p]
             IN  IF found[n] # Absent
                 THEN enrichedIngredients'[p] = FrontEndFields(found[n])
                 ELSE IsFallbackFor(enrichedIngredients'[p], n)]_vars

\* a call over a cached and a missing name returned without credentials
C14_Witness ==
  /\ CredentialsAbsent
  /\ ingredientNames = <<"A", "B">>
  /\ found["A"] # Absent
  /\ enrichedIngredients[1].description = "cached description"
  /\ enrichedIngredients[2].reason = "LLM fetch failed"

\* the number of positions of seq that hold n
Occurrences(seq, n) == Cardinality({i \in DOMAIN seq : seq[i] = n})

\* C15: within one call a name is searched at most once, holds at most one
\* position over all the generation requests and is upserted at most once,
\* however often the input repeats it.
C15_ResolvedOncePerCall ==
  \A n \in Range(ingredientNames) :
     /\ Occurrences(searchLog, n) <= 1
     /\ Occurrences(Flat(requestLog), n) <= 1
     /\ (\A i \in DOMAIN llmResults : DocAt(llmResults, i).name = MissingAt(i))
          => Occurrences(upsertLog, n) <= 1

\* C16: when the call returns, the positions of the input that hold the same
\* name hold the same record in the output, whether the name was found,
\* generated or resolved to a fallback.
C16_DedupTransparency ==
  pc = "returned" =>
    \A p, q \in DOMAIN ingredientNames :
       ingredientNames[p] = ingredientNames[q] =>
         /\ p \in DOMAIN enrichedIngredients
         /\ q \in DOMAIN enrichedIngredients
         /\ enrichedIngredients[p] = enrichedIngredients[q]

\* a name at two positions was answered by two different objects and
\* returned twice with one record
C16_Witness ==
  /\ pc = "returned"
  /\ ingredientNames = <<"A", "A">>
  /\ Len(llmResults) = 2
  /\ llmResults[1] # llmResults[2]
  /\ enrichedIngredients[1] = enrichedIngredients[2]

\* C17: whatever the order in which the searches and the batch calls settle,
\* what the call goes on with is a function of the answers by position: the
\* context of a name is built of the answer to its last position, result j is
\* what the batch of position j resolved to for it, the upserts are attempted
\* in the order of the positions, one per result, and the list returned is
\* built of the results by position.
C17_CompletionOrderUnobservable ==
  [][/\ (pc = "search" /\ pc' # "search") =>
          \A n \in Range(stillMissing) :
             ragContext'[n] =
               SafetyContextOf(searches[LastPositionIn(stillMissing, n)].safetyResults)
     /\ (pc = "generate" /\ pc' # "generate") =>
          /\ Len(llmResults') = Len(stillMissing)
          /\ \A j \in DOMAIN llmResults' :
                llmResults'[j] =
                  batchResults[BatchOf(j)].value[j - BATCH_SIZE * (BatchOf(j) - 1)]
     /\ pc' = "cache" =>
          upsertLog' = [i \in 1..idx' |-> DocAt(llmResults', i).name]
     /\ (pc' = "returned" /\ llmResults' # <<>>) =>
          ReturnsLastGenerated(ingredientNames', stillMissing', llmResults',
                               enrichedIngredients')]_vars

\* the second batch settled before the first, and both have settled
C17_Witness ==
  /\ pc = "generate"
  /\ Len(batchResults) = 2
  /\ batchResults[2].at = 1
  /\ batchResults[1].at = 2
  /\ batchResults[1].value[1] # batchResults[2].value[1]

\* the fallback of a gap: the batch's name, nothing known, Unknown
IsGapFallbackFor(el, n) ==
  /\ el.kind = "obj"
  /\ el.obj.name = n
  /\ el.obj.description = "Information not available"
  /\ el.obj.benefits = [arr |-> TRUE, val |-> <<>>]
  /\ el.obj.good_for = [def |-> TRUE, val |-> <<>>]
  /\ el.obj.risk_level = "Unknown"
  /\ el.obj.reason # NoVal

\* the list a parsed response stands for: the array itself, the array under
\* `ingredients`, or the one object as a list of one
ResponseList ==
  IF fillOutcome.parsed.kind = "single" THEN <<ObjEl(fillOutcome.parsed.obj)>>
  ELSE fillOutcome.parsed.els

\* C18: a batch of b names yields b records whatever the call settled with;
\* when the response parsed to a list of m objects (a single object counting
\* as a list of one, a wrapped list as the list), record i is the i-th object
\* of the list when the list has a present one there, otherwise the fallback
\* with the batch's i-th name and risk level Unknown; objects past position b
\* are dropped.
C18_IndexAlignedGapFilling ==
  fillPc = "filled" =>
    /\ Len(fillOutput) = Len(fillBatch)
    /\ fillOutcome.parsed.kind \in {"array", "wrapped", "single"} =>
          \A i \in 1..Len(fillBatch) :
             IF i <= Len(ResponseList) /\ ResponseList[i] # NullEl
             THEN fillOutput[i] = ResponseList[i]
             ELSE IsGapFallbackFor(fillOutput[i], fillBatch[i])

\* a batch of two names was answered by an array whose first entry is null
\* and which has no second entry: both records are fallbacks
C18_Witness ==
  /\ fillPc = "filled"
  /\ fillBatch = <<"A", "B">>
  /\ fillOutcome.parsed = ParsedArray(<<NullEl>>)
  /\ IsGapFallbackFor(fillOutput[1], "A")
  /\ IsGapFallbackFor(fillOutput[2], "B")

\* the positions of stillMissing that hold n in a batch whose call succeeded
SucceededPositionsOf(n) ==
  {j \in DOMAIN stillMissing : stillMissing[j] = n /\ ~batchThrew[BatchOf(j)]}

\* a name of a batch whose call succeeded is returned with a record
\* generated for it by such a batch, and only names of a failed batch are
\* returned with the fallback of a failed call
SiblingsKeepRecords ==
  \A p \in DOMAIN ingredientNames :
     LET n == ingredientNames[p]
     IN  n \in Range(stillMissing) =>
           /\ p \in DOMAIN enrichedIngredients
           /\ SucceededPositionsOf(n) # {} =>
                 \E j \in SucceededPositionsOf(n) :
                    enrichedIngredients[p] =
                      FrontEndFields(DocOf(llmResults[j].obj, n))
           /\ n \notin FailedNames =>
                 \A m \in {"timeout of 60000ms exceeded", "Invalid LLM response format",
                            "Unexpected token in JSON", "Cannot read properties of null"} :
                    enrichedIngredients[p].reason # "LLM error: " \o m

\* C19: within a call the requests are posted once and never again, a batch
\* promise that settled keeps its value while its siblings settle, and when
\* the call returns the names of the batches that succeeded have their
\* generated records while only names of a failed batch have fallbacks.
C19_SingleAttemptSiblingIsolation ==
  [][/\ (requestLog # <<>> /\ callNo' = callNo) => requestLog' = requestLog
     /\ (pc = "generate" /\ pc' = "generate") =>
          \A k \in DOMAIN batchResults :
             batchResults[k].settled => batchResults'[k] = batchResults[k]
     /\ (pc' = "returned" /\ llmResults' # <<>>) => SiblingsKeepRecords']_vars

\* both calls missed x, generated, had their upsert applied and returned
BothWrote ==
  /\ Len(callers) = 2
  /\ \A i \in Callers : callers[i].pc = "returned" /\ callers[i].doc # Absent
  /\ Len(writes) = 2

\* C20: when two overlapping calls both generated a record for x and both
\* upserts were applied, each call returned a record, and the collection
\* holds for x the whole record of the upsert applied last.
C20_LastWriterWins ==
  BothWrote =>
    /\ \A i \in Callers : Len(callers[i].enriched) = 1
    /\ collection[callers[1].name] # Absent
    /\ collection[callers[1].name] = writes[2].doc

\* the object the parsed response of the kept call holds for position j of
\* the batch, NullEl when it holds none
RespondedAt(j) ==
  LET parsed == alertRun.outcome.parsed
      list == IF parsed.kind = "single" THEN <<ObjEl(parsed.obj)>> ELSE parsed.els
  IN  IF alertRun.outcome.error = NoVal /\ j \in DOMAIN list THEN list[j] ELSE NullEl

\* no iteration after j had an upsert applied under the key of iteration j
LastAppliedUnderItsKey(j) ==
  /\ alertRun.applied[j]
  /\ \A k \in DOMAIN alertRun.upserts :
        (k > j /\ alertRun.applied[k]) => alertRun.upserts[k].name # alertRun.upserts[j].name

\* C21: the record built for a position of the response carries the risk
\* level and the reason the response object of that position carries, in the
\* doc handed to the upsert, in the collection once the upsert is applied and
\* in the list returned, whether or not the request carried a safety alert
\* for the name and whatever risk the alert stated.
C21_NoLocalRiskOverride ==
  alertRun.pc = "returned" =>
    \A j \in DOMAIN alertRun.llmResults :
       LET r == RespondedAt(j).obj
           n == alertRun.stillMissing[j]
           doc == alertRun.upserts[j]
       IN  RespondedAt(j) # NullEl =>
             /\ r.risk_level # NoVal => doc.risk_level = r.risk_level
             /\ r.reason # NoVal => doc.reason = r.reason
             /\ LastAppliedUnderItsKey(j) => collection[doc.name] = doc
             /\ j = LastPositionIn(alertRun.stillMissing, n) =>
                   \A p \in DOMAIN alertRun.ingredientNames :
                      alertRun.ingredientNames[p] = n =>
                        /\ p \in DOMAIN alertRun.enrichedIngredients
                        /\ r.risk_level # NoVal =>
                              alertRun.enrichedIngredients[p].risk_level = r.risk_level
                        /\ r.reason # NoVal =>
                              alertRun.enrichedIngredients[p].reason = r.reason

\* the request carried the alert of a banned substance for "A", the response
\* called "A" low-risk, and low-risk is what was stored and returned
C21_Witness ==
  /\ alertRun.pc = "returned"
  /\ alertRun.ingredientNames = <<"A", "B">>
  /\ alertRun.stillMissing = <<"A", "B">>
  /\ alertRun.ragContext["A"].has_safety_concerns
  /\ Len(alertRun.request.alerts) = 1
  /\ alertRun.request.alerts[1].ingredient = "A"
  /\ alertRun.request.alerts[1].risk = "High (Banned)"
  /\ RespondedAt(1).obj.risk_level = "low-risk"
  /\ collection["A"].risk_level = "low-risk"
  /\ collection["A"].reason = "generated reason"
  /\ alertRun.enrichedIngredients[1].risk_level = "low-risk"

\* the risk levels of the record schema, unknown as the code writes it
RiskLevels == {"no-risk", "low-risk", "moderate-risk", "high-risk", "Unknown"}

\* C22: every record the call returns and every record in the collection has
\* one of the five risk levels, whatever the generation service put in the
\* field.
C22_RiskLevelEnum ==
  /\ pc = "returned" =>
       \A i \in DOMAIN enrichedIngredients : enrichedIngredients[i].risk_level \in RiskLevels
  /\ \A k \in Keys : collection[k] # Absent => collection[k].risk_level \in RiskLevels

\* C23: a step of a call deletes no entry of the collection, every key
\* handed to updateOne is one of the call's missing names, and the entries
\* under every other key (names the lookup found, names not in the input)
\* stay as they are, whatever names the response objects carry.
C23_CacheFrame ==
  [][/\ \A k \in Keys : collection[k] # Absent => collection'[k] # Absent
     /\ Range(upsertLog') \subseteq Range(stillMissing')
     /\ pc = "cache" =>
          \A k \in Keys \ Range(stillMissing) : collection'[k] = collection[k]]_vars

\* C24: no entry of the collection is a fallback record (description
\* 'Information not available', nothing known, risk level Unknown), whether
\* of a failed batch, of a gap in a short response or of a failed subsystem:
\* a name that resolved to a fallback stays a miss for the next call.
C24_OnlyGeneratedPersisted ==
  \A k \in Keys :
     collection[k] # Absent =>
       ~(/\ collection[k].description = "Information not available"
         /\ collection[k].benefits = <<>>
         /\ collection[k].good_for = <<>>
         /\ collection[k].risk_level = "Unknown")

\* the matches of results above the threshold, in the order of results
AboveThreshold(results) ==
  LET above(r) == r.similarity > 850
  IN  SelectSeq(results, above)

\* ctx is the context of results: with a match above 0.85 the matches above
\* it, in descending order, and the highest of their similarities (the first
\* one's); without one the zero context
ShapedBy(ctx, results) ==
  LET kept == AboveThreshold(results)
  IN  IF Len(kept) > 0
      THEN /\ ctx.has_safety_concerns
           /\ Len(ctx.matched_substances) = Len(kept)
           /\ \A i \in DOMAIN kept :
                 ctx.matched_substances[i].similarity = kept[i].similarity
           /\ \A i \in 1..Len(kept) - 1 :
                 ctx.matched_substances[i].similarity >= ctx.matched_substances[i + 1].similarity
           /\ \A i \in DOMAIN kept :
                 ctx.highest_similarity >= ctx.matched_substances[i].similarity
           /\ ctx.highest_similarity = ctx.matched_substances[1].similarity
      ELSE ctx = [has_safety_concerns |-> FALSE, matched_substances |-> <<>>,
                  highest_similarity |-> 0]

\* C25: the context built of a ranked list of matches has, when a match is
\* above 0.85, the matches above it in descending order and as highest
\* similarity the maximum among them, the first one's; otherwise it is exactly
\* the zero context.  In the map built over two names each name has the
\* context of its own results, the one built of them alone, whatever the
\* results of the other name.
C25_ContextShape ==
  builderPc = "built" =>
    /\ ShapedBy(builderOutput, builderInput)
    /\ DOMAIN builderMap = {"A", "B"}
    /\ builderMap["A"] = builderOutput
    /\ ShapedBy(builderMap["B"], builderSibling)

\* of two matches at 0.95 and 0.82 the first is kept, while the other name
\* has a match of its own at 0.90
C25_Witness ==
  /\ builderPc = "built"
  /\ Len(builderInput) = 2
  /\ builderInput[1].similarity = 950
  /\ builderInput[2].similarity = 820
  /\ Len(builderOutput.matched_substances) = 1
  /\ builderOutput.highest_similarity = 950
  /\ Len(builderSibling) = 1
  /\ builderMap["B"].highest_similarity = 900

\* C26: a call with a missing name that found the credentials absent has
\* issued no similarity search, no generation request and no upsert when it
\* returns its fallback records.
C26_CredentialsUpFront ==
  CredentialsAbsent =>
    /\ searchLog = <<>>
    /\ requestLog = <<>>
    /\ upsertLog = <<>>

\* C27: within a call no search is issued while the lookup is pending and
\* the searches are issued when it resolves; the requests are posted in a step
\* that finds every search settled; the first upsert is issued in a step that
\* finds every batch settled; each further upsert is issued when the one
\* before it settles, for the next position of the missing list; and the call
\* returns from the loop when the upsert of the last position settles.
C27_StageOrdering ==
  [][/\ pc' = "find" => (searchLog' = <<>> /\ requestLog' = <<>> /\ upsertLog' = <<>>)
     /\ (searchLog = <<>> /\ searchLog' # <<>>) => (pc = "find" /\ pc' = "search")
     /\ (requestLog = <<>> /\ requestLog' # <<>>) =>
          /\ pc = "search"
          /\ searches # <<>>
          /\ \A i \in DOMAIN searches : searches[i].settled
     /\ (upsertLog = <<>> /\ upsertLog' # <<>>) =>
          /\ pc = "generate"
          /\ batchResults # <<>>
          /\ \A k \in DOMAIN batchResults : batchResults[k].settled
     /\ (upsertLog # <<>> /\ upsertLog' # upsertLog /\ callNo' = callNo) =>
          /\ pc = "cache"
          /\ idx = Len(upsertLog)
          /\ upsertLog' = Append(upsertLog, DocAt(llmResults, idx + 1).name)
     /\ (pc = "cache" /\ pc' = "returned") =>
          /\ idx = Len(llmResults)
          /\ Len(upsertLog) = Len(stillMissing)]_vars

\* a call over six missing names has gone through every stage: six searches,
\* two requests, six upserts, and has returned
C27_Witness ==
  /\ pc = "returned"
  /\ Len(searchLog) = 6
  /\ Len(requestLog) = 2
  /\ Len(upsertLog) = 6
  /\ Len(enrichedIngredients) = 6

\* C28: when every awaited external call settles in the end, a call that
\* has started returns in the end.
C28_EventuallyReturns ==
  (pc \in {"find", "search", "generate", "cache"}) ~> (pc = "returned")

\* the entry stored for query q (none for a query that cannot be encoded)
EntryOf(storage, q) ==
  IF q = "serum" THEN storage[<<"productImage_", "c2VydW0=">>]
  ELSE IF q = "toner" THEN storage[<<"productImage_", "dG9uZXI=">>]
  ELSE [kind |-> "null", imageUrl |-> NoVal, timestamp |-> 0]

\* this step is a read of the cache for q: getCachedImage(q), or the check
\* getProductImage(q) starts with (a hit returns, a miss issues the fetch)
ReadOf(q) ==
  /\ imageOps' = imageOps + 1
  /\ \/ /\ fetching' = fetching
        /\ lastReturn'.op \in {"getCachedImage", "getProductImage"}
        /\ lastReturn'.query = q
     \/ \E c \in Callers : fetching[c] = NoVal /\ fetching'[c] = q

\* the value such a step reads: a miss of getProductImage read null
ValueRead == IF fetching' = fetching THEN lastReturn'.value ELSE "<null>"

\* C29: a read for q returns a URL only when the entry of q holds it and
\* was written less than 7 days before (an entry is written by setCachedImage
\* alone, with the time of the write and the URL just fetched); a read of an
\* entry 7 days old or older returns null and removes it; no read changes
\* the entry of another key; and a read of an entry younger than 7 days
\* returns its URL with no fetch issued, getProductImage included.
C29_ImageCacheExpiry ==
  [][/\ \A q \in ImageQueries :
          ReadOf(q) =>
            LET e == EntryOf(localStorage, q)
                age == dateNow - e.timestamp
            IN  /\ ValueRead # "<null>" =>
                      (e.kind = "json" /\ ValueRead = e.imageUrl /\ age >= 0
                                       /\ age < 7 * 24 * 60 * 60 * 1000)
                /\ (e.kind = "json" /\ age >= 7 * 24 * 60 * 60 * 1000) =>
                      /\ ValueRead = "<null>"
                      /\ EntryOf(localStorage', q).kind = "null"
                /\ (e.kind = "json" /\ age < 7 * 24 * 60 * 60 * 1000) =>
                      /\ ValueRead = e.imageUrl
                      /\ fetching' = fetching
                      /\ localStorage' = localStorage
                /\ \A key \in DOMAIN localStorage :
                      localStorage'[key] # localStorage[key] =>
                        (localStorage[key] = e /\ e.kind = "json")
     /\ \A key \in DOMAIN localStorage :
          (localStorage'[key] # localStorage[key] /\ localStorage'[key].kind = "json") =>
            /\ lastReturn'.op = "getProductImage"
            /\ lastReturn'.fetched
            /\ localStorage'[key] = EntryOf(localStorage', lastReturn'.query)
            /\ localStorage'[key].imageUrl = lastReturn'.value
            /\ localStorage'[key].timestamp = dateNow]_vars

\* getProductImage returned the cached URL, with no fetch, one millisecond
\* before the entry turned 7 days old
C29_Witness ==
  /\ lastReturn.op = "getProductImage"
  /\ ~lastReturn.fetched
  /\ lastReturn.query = "serum"
  /\ lastReturn.value = EntryOf(localStorage, "serum").imageUrl
  /\ dateNow - EntryOf(localStorage, "serum").timestamp = 7 * 24 * 60 * 60 * 1000 - 1

\* the keys cleanupImageCache is to remove: those that start with the prefix
\* and hold an entry that does not parse or is 7 days old or older
ToBeCleaned(key) ==
  /\ localStorage[key].kind # "null"
  /\ key[1] = "productImage_"
  /\ \/ localStorage[key].kind # "json"
     \/ dateNow - localStorage[key].timestamp >= 7 * 24 * 60 * 60 * 1000

\* C30: cleanupImageCache removes the keys that start with the prefix and
\* hold an entry that is 7 days old or older or does not parse, and leaves
\* every other key with the value it had: the younger entries and the keys
\* without the prefix.
C30_CleanupExact ==
  [][(imageOps' = imageOps + 1 /\ fetching' = fetching
        /\ lastReturn'.op = "cleanupImageCache") =>
       /\ DOMAIN localStorage' = DOMAIN localStorage
       /\ \A key \in DOMAIN localStorage :
             IF ToBeCleaned(key)
             THEN localStorage'[key].kind = "null"
             ELSE localStorage'[key] = localStorage[key]
       /\ lastReturn'.value = Cardinality({key \in DOMAIN localStorage : ToBeCleaned(key)})]_vars

\* a cleanup removed the entry that had just turned 7 days old and the
\* entry that did not parse, and kept the entry one millisecond old and the
\* keys of the rest of the application
C30_Witness ==
  /\ lastReturn.op = "cleanupImageCache"
  /\ lastReturn.value = 2
  /\ dateNow = 7 * 24 * 60 * 60 * 1000
  /\ EntryOf(localStorage, "serum").kind = "null"
  /\ localStorage[<<"productImage_", "bGVmdG92ZXI=">>].kind = "null"
  /\ EntryOf(localStorage, "toner").kind = "json"
  /\ EntryOf(localStorage, "toner").timestamp = dateNow - 1
  /\ localStorage[<<"theme">>].kind = "text"
  /\ localStorage[<<"backup_productImage_", "c2VydW0=">>].kind = "text"

=============================================================================
